---- MODULE Spec2Model ----
(***************************************************************************)
(* The execution engine of the bf5d interpreter                            *)
(* (src/interpreter/types.rs): Timeline::update, the tape primitives,      *)
(* BF5DContext::collect_timeline_metadata and BF5DContext::execute_command,*)
(* driven by the tick loop (snapshot, step every timeline, apply every     *)
(* command).                                                               *)
(*                                                                         *)
(* Rust vectors are 0-based; TLA+ sequences are 1-based.  Instruction      *)
(* pointers, population indices and tape offsets keep their Rust values    *)
(* and are shifted by one where a sequence is accessed.                    *)
(***************************************************************************)
EXTENDS Integers, Sequences, FiniteSets, TLC

VARIABLES
    tokens,           \* BF5DContext.tokens
    program_input,    \* BF5DContext.program_input (u8 codes of the chars)
    program_output,   \* BF5DContext.program_output
    total_timelines,  \* BF5DContext.total_timelines
    metadata,         \* BF5DContext.metadata
    need_history,     \* BF5DContext.need_history
    timelines,        \* the population, a Vec<Timeline>
    ID_GEN,           \* the thread-local id counter
    phase,            \* position of the tick loop: "snapshot", "step", "apply"
    cursor,           \* 0-based index of the next timeline to step / command to apply
    commands,         \* the commands collected by the step phase of this tick
    ticks,            \* number of ticks started
    panicked,         \* TRUE once an unwrap() has failed: the process aborted
    tickStart,        \* history: the population when the tick's snapshot was taken
    postStep,         \* history: the population when the step phase finished
    forks,            \* history: the SpawnAt commands applied in this tick
    prev              \* history: per timeline id, its latest step (token, state before)

vars == <<tokens, program_input, program_output, total_timelines, metadata,
          need_history, timelines, ID_GEN, phase, cursor, commands, ticks,
          panicked, tickStart, postStep, forks, prev>>

----------------------------------------------------------------------------
(* Bounds of the model *)

MaxProgLen == 2      \* every program up to this length is explored
MaxTicks == 6        \* ticks per run
MaxTimelines == 4    \* population size above which a SpawnAt is not explored

(* Wrapping<u8> *)
ByteMod == 256

(* Option::None of data_at *)
None == -1

----------------------------------------------------------------------------
(* Tokens (parser::types::Token as used by the engine) *)

Tok(op, index) == [op |-> op, index |-> index]

SimpleOps == {"MoveLeft", "MoveRight", "MoveUp", "MoveDown", "Increment",
              "Decrement", "Write", "Read", "Rewind", "Await", "Kill"}
IndexOps == {"JumpIfZero", "JumpIfNotZero", "Spawn"}

Alphabet(len) ==
    {Tok(op, 0) : op \in SimpleOps} \cup
    {Tok(op, i) : op \in IndexOps, i \in 0..len}

ShortPrograms ==
    UNION {[1..n -> Alphabet(n)] : n \in 1..MaxProgLen}

----------------------------------------------------------------------------
(* Timeline and its tape primitives *)

Timeline(id, data, data_backwards, pointers, tape, instruction_pointer) ==
    [id |-> id, data |-> data, data_backwards |-> data_backwards,
     pointers |-> pointers, tape |-> tape,
     instruction_pointer |-> instruction_pointer, alive |-> TRUE]

(* Timeline::new with the id the counter hands out *)
NewTimeline(id) == Timeline(id, <<0>>, <<>>, <<0>>, <<>>, 0)

(* CloneNewId keeping the id of the cloned timeline *)
CloneSameId(t, id) == t

(* Timeline::clone_new_id: every field cloned, the id replaced *)
CloneNewId(t, id) == [t EXCEPT !.id = id]

backwards_index(index) == IF index < 0 THEN -(index + 1) ELSE index

Zeros(n) == [k \in 1..n |-> 0]

(* Timeline::extend_data: the timeline with the addressed half of the tape
   grown by zero cells up to the index *)
ExtendData(t, index) ==
    LET data == IF index < 0 THEN t.data_backwards ELSE t.data
        idx == backwards_index(index)
        len == Len(data)
        grown == IF idx >= len THEN data \o Zeros(idx + 1 - len) ELSE data
    IN  IF index < 0 THEN [t EXCEPT !.data_backwards = grown]
                     ELSE [t EXCEPT !.data = grown]

(* Timeline::data_at: the cell, or None when the tape does not cover it *)
DataAt(t, index) ==
    LET data == IF index < 0 THEN t.data_backwards ELSE t.data
        idx == backwards_index(index)
    IN  IF idx < Len(data) THEN data[idx + 1] ELSE None

(* Timeline::data_at_mut followed by an assignment through the reference *)
DataAtMutSet(t, index, value) ==
    LET e == ExtendData(t, index)
        idx == backwards_index(index)
    IN  IF index < 0 THEN [e EXCEPT !.data_backwards[idx + 1] = value]
                     ELSE [e EXCEPT !.data[idx + 1] = value]

(* Timeline::data_at_mut read through the reference (after the extension) *)
DataAtMutGet(t, index) == DataAt(ExtendData(t, index), index)

(* find_position(|x| x.id == id): 0-based index of the first match, or None *)
FindPosition(seq, id) ==
    IF \E k \in 1..Len(seq) : seq[k].id = id
    THEN (CHOOSE k \in 1..Len(seq) :
              seq[k].id = id /\ \A j \in 1..(k - 1) : seq[j].id # id) - 1
    ELSE None

----------------------------------------------------------------------------
(* Timeline::update, phase 1: the actions that dispatch no command *)

(* Move Left / Right: every pointer shifted by delta, the tape extended *)
RECURSIVE MovePointers(_, _, _)
MovePointers(t, i, delta) ==
    IF i > Len(t.pointers) THEN t
    ELSE LET ptr == t.pointers[i] + delta
         IN  MovePointers(ExtendData([t EXCEPT !.pointers[i] = ptr], ptr),
                          i + 1, delta)

(* UpdateLoop with saturating instead of wrapping arithmetic *)
RECURSIVE UpdateLoopSaturating(_, _, _, _)
UpdateLoopSaturating(t, ptrs, delta, slice_of_time) ==
    IF ptrs = <<>> THEN [tl |-> t, slice |-> slice_of_time]
    ELSE LET ptr == Head(ptrs)
             old == DataAtMutGet(t, ptr)
             new == IF old + delta < 0 THEN 0
                    ELSE IF old + delta >= ByteMod THEN ByteMod - 1
                    ELSE old + delta
         IN  UpdateLoopSaturating(DataAtMutSet(t, ptr, new), Tail(ptrs), delta,
                                  Append(slice_of_time, <<ptr, old>>))

(* UpdateLoop visiting every distinct offset once *)
RECURSIVE UpdateLoopDistinct(_, _, _, _)
UpdateLoopDistinct(t, ptrs, delta, slice_of_time) ==
    IF ptrs = <<>> THEN [tl |-> t, slice |-> slice_of_time]
    ELSE LET ptr == Head(ptrs)
             old == DataAtMutGet(t, ptr)
             again == \E i \in 2..Len(ptrs) : ptrs[i] = ptr
         IN  IF again
             THEN UpdateLoopDistinct(t, Tail(ptrs), delta, slice_of_time)
             ELSE UpdateLoopDistinct(DataAtMutSet(t, ptr, (old + delta) % ByteMod),
                                     Tail(ptrs), delta,
                                     Append(slice_of_time, <<ptr, old>>))

(* Increment / Decrement: the loop over self.pointers.clone() *)
RECURSIVE UpdateLoop(_, _, _, _)
UpdateLoop(t, ptrs, delta, slice_of_time) ==
    IF ptrs = <<>> THEN [tl |-> t, slice |-> slice_of_time]
    ELSE LET ptr == Head(ptrs)
             old == DataAtMutGet(t, ptr)
         IN  UpdateLoop(DataAtMutSet(t, ptr, (old + delta) % ByteMod),
                        Tail(ptrs), delta, Append(slice_of_time, <<ptr, old>>))

(* PushSlice without the need_history guard *)
PushSliceAlways(t, slice_of_time, history) ==
    [t EXCEPT !.tape = Append(@, slice_of_time)]

PushSlice(t, slice_of_time, history) ==
    IF history THEN [t EXCEPT !.tape = Append(@, slice_of_time)] ELSE t

DoUpdate(t, delta, history) ==
    LET r == UpdateLoop(t, t.pointers, delta, <<>>)
    IN  PushSlice(r.tl, r.slice, history)

(* Write: one char per pointer, each read through data_at(..).unwrap() *)
UnwrapFails(t, ptrs) == \E i \in 1..Len(ptrs) : DataAt(t, ptrs[i]) = None

WriteChars(t, ptrs) == [i \in 1..Len(ptrs) |-> DataAt(t, ptrs[i])]

(* Read: the loop over self.pointers.clone(), consuming the shared input *)
(* ReadLoop taking the last character of the input instead of the first *)
RECURSIVE ReadLoopPop(_, _, _, _)
ReadLoopPop(t, ptrs, input, slice_of_time) ==
    IF ptrs = <<>> THEN [tl |-> t, input |-> input, slice |-> slice_of_time]
    ELSE LET ptr == Head(ptrs)
             c == IF Len(input) = 0 THEN 0 ELSE input[Len(input)]
             rest == IF Len(input) = 0 THEN input
                     ELSE SubSeq(input, 1, Len(input) - 1)
             old == DataAtMutGet(t, ptr)
         IN  ReadLoopPop(DataAtMutSet(t, ptr, c % ByteMod), Tail(ptrs), rest,
                         Append(slice_of_time, <<ptr, old>>))

RECURSIVE ReadLoop(_, _, _, _)
ReadLoop(t, ptrs, input, slice_of_time) ==
    IF ptrs = <<>> THEN [tl |-> t, input |-> input, slice |-> slice_of_time]
    ELSE LET ptr == Head(ptrs)
             c == IF Len(input) = 0 THEN 0 ELSE Head(input)
             rest == IF Len(input) = 0 THEN input ELSE Tail(input)
             old == DataAtMutGet(t, ptr)
         IN  ReadLoop(DataAtMutSet(t, ptr, c % ByteMod), Tail(ptrs), rest,
                      Append(slice_of_time, <<ptr, old>>))

(* Rewind: pop the last slice and replay it front to back *)
RECURSIVE ReplaySlice(_, _)
ReplaySlice(t, slice_of_time) ==
    IF slice_of_time = <<>> THEN t
    ELSE ReplaySlice(DataAtMutSet(t, Head(slice_of_time)[1], Head(slice_of_time)[2]),
                     Tail(slice_of_time))

DoRewind(t) ==
    IF Len(t.tape) = 0 THEN t
    ELSE ReplaySlice([t EXCEPT !.tape = SubSeq(@, 1, Len(@) - 1)],
                     t.tape[Len(t.tape)])

(* The first match of update: [tl, input, output, panic] *)
DataPhase(t, action, input, output, history) ==
    LET same == [tl |-> t, input |-> input, output |-> output, panic |-> FALSE]
    IN  CASE action.op = "MoveLeft" -> [same EXCEPT !.tl = MovePointers(t, 1, -1)]
          [] action.op = "MoveRight" -> [same EXCEPT !.tl = MovePointers(t, 1, 1)]
          [] action.op = "Increment" -> [same EXCEPT !.tl = DoUpdate(t, 1, history)]
          [] action.op = "Decrement" -> [same EXCEPT !.tl = DoUpdate(t, -1, history)]
          [] action.op = "Write" ->
                IF UnwrapFails(t, t.pointers) THEN [same EXCEPT !.panic = TRUE]
                ELSE [same EXCEPT !.output = output \o WriteChars(t, t.pointers)]
          [] action.op = "Read" ->
                LET r == ReadLoop(t, t.pointers, input, <<>>)
                IN  [same EXCEPT !.tl = PushSlice(r.tl, r.slice, history),
                                 !.input = r.input]
          [] action.op = "Rewind" -> [same EXCEPT !.tl = DoRewind(t)]
          [] OTHER -> same

----------------------------------------------------------------------------
(* Timeline::update, phase 2: the instruction pointer *)

(* The guard of the IfZero arm, all(..) over the unwrapped cells: it stops at
   the first nonzero cell; "panic" when it unwraps a None before that *)
RECURSIVE AllZero(_, _)
AllZero(t, ptrs) ==
    IF ptrs = <<>> THEN "true"
    ELSE LET v == DataAt(t, Head(ptrs))
         IN  IF v = None THEN "panic"
             ELSE IF v # 0 THEN "false"
             ELSE AllZero(t, Tail(ptrs))

(* The guard of the IfNotZero arm, any(..) over the unwrapped cells: it
   stops at the first nonzero cell *)
RECURSIVE AnyNotZero(_, _)
AnyNotZero(t, ptrs) ==
    IF ptrs = <<>> THEN "false"
    ELSE LET v == DataAt(t, Head(ptrs))
         IN  IF v = None THEN "panic"
             ELSE IF v # 0 THEN "true"
             ELSE AnyNotZero(t, Tail(ptrs))

(* AwaitAdvances reading the timeline's own snapshot entry *)
AwaitAdvancesOwnEntry(t, meta) ==
    LET timeline_index == FindPosition(meta, t.id)
    IN  IF timeline_index + 1 <= Len(meta)
        THEN meta[timeline_index + 1].pointers_count = 0
        ELSE TRUE

(* The Await arm: whether the timeline advances, given the tick snapshot *)
AwaitAdvances(t, meta) ==
    LET timeline_index == FindPosition(meta, t.id)
    IN  IF timeline_index + 2 <= Len(meta)
        THEN meta[timeline_index + 2].pointers_count = 0
        ELSE TRUE

(* The second match of update: [tl, panic] *)
PointerPhase(t, action, meta) ==
    LET advance == [tl |-> [t EXCEPT !.instruction_pointer = @ + 1], panic |-> FALSE]
        jump == [tl |-> [t EXCEPT !.instruction_pointer = action.index], panic |-> FALSE]
        stay == [tl |-> t, panic |-> FALSE]
        fail == [tl |-> t, panic |-> TRUE]
    IN  CASE action.op = "JumpIfZero" ->
                LET g == AllZero(t, t.pointers)
                IN  IF g = "panic" THEN fail ELSE IF g = "true" THEN jump ELSE advance
          [] action.op = "JumpIfNotZero" ->
                LET g == AnyNotZero(t, t.pointers)
                IN  IF g = "panic" THEN fail ELSE IF g = "true" THEN jump ELSE advance
          [] action.op = "Await" ->
                IF FindPosition(meta, t.id) = None THEN fail
                ELSE IF AwaitAdvances(t, meta) THEN advance ELSE stay
          [] OTHER -> advance

----------------------------------------------------------------------------
(* Timeline::update, phase 3: the command *)

CommandNone == [type |-> "None", id |-> 0, direction |-> "", instruction_start |-> 0]
MovePointer(id, direction) ==
    [type |-> "MovePointer", id |-> id, direction |-> direction, instruction_start |-> 0]
SpawnAt(id, instruction_start) ==
    [type |-> "SpawnAt", id |-> id, direction |-> "", instruction_start |-> instruction_start]
RemoveAt(id) == [type |-> "RemoveAt", id |-> id, direction |-> "", instruction_start |-> 0]

CommandPhase(t, action) ==
    CASE action.op = "Kill" -> RemoveAt(t.id)
      [] action.op = "MoveUp" -> MovePointer(t.id, "Up")
      [] action.op = "MoveDown" -> MovePointer(t.id, "Down")
      [] action.op = "Spawn" -> SpawnAt(t.id, action.index)
      [] OTHER -> CommandNone

(* Timeline::update as a whole: [tl, input, output, cmd, panic].  A failed
   unwrap() aborts the process: nothing after it is executed. *)
Update(t, toks, meta, input, output, history) ==
    IF t.instruction_pointer < Len(toks)
    THEN LET action == toks[t.instruction_pointer + 1]
             d == DataPhase(t, action, input, output, history)
             p == PointerPhase(d.tl, action, meta)
         IN  IF d.panic
             THEN [tl |-> t, input |-> input, output |-> output,
                   cmd |-> CommandNone, panic |-> TRUE]
             ELSE IF p.panic
             THEN [tl |-> d.tl, input |-> d.input, output |-> d.output,
                   cmd |-> CommandNone, panic |-> TRUE]
             ELSE [tl |-> p.tl, input |-> d.input, output |-> d.output,
                   cmd |-> CommandPhase(p.tl, action), panic |-> FALSE]
    ELSE [tl |-> t, input |-> input, output |-> output,
          cmd |-> RemoveAt(t.id), panic |-> FALSE]

----------------------------------------------------------------------------
(* BF5DContext::collect_timeline_metadata *)

(* CollectTimelineMetadata counting tape cells instead of pointers *)
CollectTimelineMetadataCells(tls) ==
    [k \in 1..Len(tls) |-> [id |-> tls[k].id, pointers_count |-> Len(tls[k].data)]]

CollectTimelineMetadata(tls) ==
    [k \in 1..Len(tls) |-> [id |-> tls[k].id, pointers_count |-> Len(tls[k].pointers)]]

----------------------------------------------------------------------------
(* BF5DContext::execute_command: each arm yields [tls, id_gen, panic] *)

RECURSIVE ExtendAll(_, _)
ExtendAll(t, ptrs) ==
    IF ptrs = <<>> THEN t ELSE ExtendAll(ExtendData(t, Head(ptrs)), Tail(ptrs))

InsertAt(seq, k, x) == SubSeq(seq, 1, k - 1) \o <<x>> \o SubSeq(seq, k, Len(seq))
RemoveIndex(seq, k) == SubSeq(seq, 1, k - 1) \o SubSeq(seq, k + 1, Len(seq))

Outcome(tls, id_gen, panic) == [tls |-> tls, id_gen |-> id_gen, panic |-> panic]

(* ExecMoveUp without the extension of the receiver's tape *)
ExecMoveUpNoExtend(tls, id, id_gen) ==
    LET index == FindPosition(tls, id)
    IN  IF index = None THEN Outcome(tls, id_gen, TRUE)
        ELSE IF index # 0
        THEN LET pointers == tls[index + 1].pointers
                 cleared == [tls EXCEPT ![index + 1].pointers = <<>>]
             IN  Outcome([cleared EXCEPT ![index].pointers = @ \o pointers],
                         id_gen, FALSE)
        ELSE Outcome([tls EXCEPT ![index + 1].pointers = <<>>], id_gen, FALSE)

(* ExecMoveUp delivering to the first timeline instead of the one above *)
ExecMoveUpToFirst(tls, id, id_gen) ==
    LET index == FindPosition(tls, id)
    IN  IF index = None THEN Outcome(tls, id_gen, TRUE)
        ELSE IF index # 0
        THEN LET pointers == tls[index + 1].pointers
                 cleared == [tls EXCEPT ![index + 1].pointers = <<>>]
                 target == [cleared[1] EXCEPT !.pointers = @ \o pointers]
             IN  Outcome([cleared EXCEPT ![1] = ExtendAll(target, pointers)],
                         id_gen, FALSE)
        ELSE Outcome([tls EXCEPT ![index + 1].pointers = <<>>], id_gen, FALSE)

ExecMoveUp(tls, id, id_gen) ==
    LET index == FindPosition(tls, id)
    IN  IF index = None THEN Outcome(tls, id_gen, TRUE)
        ELSE IF index # 0
        THEN LET pointers == tls[index + 1].pointers
                 cleared == [tls EXCEPT ![index + 1].pointers = <<>>]
                 target == [cleared[index] EXCEPT !.pointers = @ \o pointers]
             IN  Outcome([cleared EXCEPT ![index] = ExtendAll(target, pointers)],
                         id_gen, FALSE)
        ELSE Outcome([tls EXCEPT ![index + 1].pointers = <<>>], id_gen, FALSE)

(* ExecMoveDown transferring from index 0 as from any other index *)
ExecMoveDownFromRoot(tls, id, id_gen) ==
    LET index == FindPosition(tls, id)
    IN  IF index = None THEN Outcome(tls, id_gen, TRUE)
        ELSE LET pointers == tls[index + 1].pointers
                 cleared == [tls EXCEPT ![index + 1].pointers = <<>>]
             IN  IF index + 2 <= Len(tls)
                 THEN Outcome([cleared EXCEPT ![index + 2].pointers = @ \o pointers],
                              id_gen, FALSE)
                 ELSE Outcome(cleared, id_gen, TRUE)

ExecMoveDown(tls, id, id_gen) ==
    LET index == FindPosition(tls, id)
    IN  IF index = None THEN Outcome(tls, id_gen, TRUE)
        ELSE IF index # 0
        THEN LET pointers == tls[index + 1].pointers
                 cleared == [tls EXCEPT ![index + 1].pointers = <<>>]
             IN  IF index + 2 <= Len(tls)
                 THEN Outcome([cleared EXCEPT ![index + 2].pointers = @ \o pointers],
                              id_gen, FALSE)
                 ELSE Outcome(cleared, id_gen, TRUE)   \* get_mut(index + 1).unwrap()
        ELSE Outcome([tls EXCEPT ![index + 1].pointers = <<>>], id_gen, FALSE)

(* ExecSpawnAt with the pointer overridden before the clone is taken *)
ExecSpawnAtOverrideFirst(tls, id, instruction_start, id_gen) ==
    LET index == FindPosition(tls, id)
    IN  IF index = None THEN Outcome(tls, id_gen, TRUE)
        ELSE LET moved == [tls EXCEPT ![index + 1].instruction_pointer = instruction_start]
                 new_timeline == CloneNewId(moved[index + 1], id_gen)
             IN  Outcome(InsertAt(moved, index + 2, new_timeline), id_gen + 1, FALSE)

ExecSpawnAt(tls, id, instruction_start, id_gen) ==
    LET index == FindPosition(tls, id)
    IN  IF index = None THEN Outcome(tls, id_gen, TRUE)
        ELSE LET new_timeline == CloneNewId(tls[index + 1], id_gen)
                 moved == [tls EXCEPT ![index + 1].instruction_pointer = instruction_start]
             IN  Outcome(InsertAt(moved, index + 2, new_timeline), id_gen + 1, FALSE)

(* ExecRemoveAt without the index-0 protection *)
ExecRemoveAtUnguarded(tls, id, id_gen) ==
    LET index == FindPosition(tls, id)
    IN  IF index = None THEN Outcome(tls, id_gen, TRUE)
        ELSE Outcome(RemoveIndex(tls, index + 1), id_gen, FALSE)

(* ExecRemoveAt with the removal left out *)
ExecRemoveAtKeeps(tls, id, id_gen) ==
    LET index == FindPosition(tls, id)
    IN  IF index = None THEN Outcome(tls, id_gen, TRUE)
        ELSE Outcome(tls, id_gen, FALSE)

ExecRemoveAt(tls, id, id_gen) ==
    LET index == FindPosition(tls, id)
    IN  IF index = None THEN Outcome(tls, id_gen, TRUE)
        ELSE IF index # 0 THEN Outcome(RemoveIndex(tls, index + 1), id_gen, FALSE)
        ELSE Outcome(tls, id_gen, FALSE)

ExecuteCommand(command, tls, id_gen) ==
    CASE command.type = "MovePointer" /\ command.direction = "Up" ->
            ExecMoveUp(tls, command.id, id_gen)
      [] command.type = "MovePointer" /\ command.direction = "Down" ->
            ExecMoveDown(tls, command.id, id_gen)
      [] command.type = "SpawnAt" ->
            ExecSpawnAt(tls, command.id, command.instruction_start, id_gen)
      [] command.type = "RemoveAt" -> ExecRemoveAt(tls, command.id, id_gen)
      [] OTHER -> Outcome(tls, id_gen, FALSE)

----------------------------------------------------------------------------
(* The programs and inputs explored *)

(* The second character lies above U+00FF: Read stores its low byte, 66 *)
InputText == <<65, 322, 67>>
MaxInputLen == 2
Inputs == {SubSeq(InputText, 1, n) : n \in 0..MaxInputLen}

(* Longer programs, each driving the engine into one of the situations the
   properties below are about *)
MoveDownProgram ==      \* a timeline moves right, then moves its cursor down
    <<Tok("Spawn", 1), Tok("Spawn", 3), Tok("JumpIfZero", 2),
      Tok("MoveRight", 0), Tok("MoveDown", 0)>>
MoveUpProgram ==        \* a timeline moves right, then moves its cursor up
    <<Tok("Spawn", 3), Tok("MoveRight", 0), Tok("MoveUp", 0), Tok("Increment", 0)>>
MergeRewindProgram ==   \* the root receives a second cursor, increments, rewinds
    <<Tok("Spawn", 2), Tok("MoveUp", 0), Tok("Increment", 0),
      Tok("Increment", 0), Tok("Rewind", 0)>>
SpawnMoveUpProgram ==   \* the root spawns while the timeline below moves up
    <<Tok("Spawn", 2), Tok("MoveUp", 0), Tok("Spawn", 0)>>
ForkProgram ==          \* the root forks with a written tape and an undo log
    <<Tok("Increment", 0), Tok("MoveLeft", 0), Tok("Spawn", 1)>>
AwaitMoveUpProgram ==   \* the root awaits while the timeline below moves up
    <<Tok("Spawn", 2), Tok("MoveUp", 0), Tok("Await", 0)>>
MergeReadProgram ==     \* the root holds cursors at offsets 1 and 0, reads, writes
    <<Tok("Spawn", 2), Tok("MoveUp", 0), Tok("MoveRight", 0),
      Tok("Read", 0), Tok("Write", 0)>>
MergeUpdateProgram ==   \* the root receives a second cursor between two updates
    <<Tok("Spawn", 2), Tok("MoveUp", 0), Tok("Increment", 0),
      Tok("Decrement", 0), Tok("Increment", 0), Tok("Read", 0)>>
MoveDownWriteProgram == \* a timeline writes after a cursor was moved down into it
    <<Tok("Spawn", 1), Tok("Spawn", 5), Tok("Increment", 0), Tok("Increment", 0),
      Tok("Write", 0), Tok("MoveRight", 0), Tok("MoveDown", 0)>>
SpawnAwaitProgram ==    \* the root increments while the timeline below awaits
    <<Tok("Spawn", 2), Tok("Await", 0), Tok("Increment", 0)>>

ScenarioPrograms ==
    {MoveDownProgram, MoveUpProgram, MergeRewindProgram, SpawnMoveUpProgram,
     ForkProgram, AwaitMoveUpProgram, MergeReadProgram, MergeUpdateProgram,
     MoveDownWriteProgram, SpawnAwaitProgram}

Programs == ShortPrograms \cup ScenarioPrograms

----------------------------------------------------------------------------
(* The tick loop: snapshot, step every timeline in population order, then
   apply every command in the order the steps produced them *)

(* The token a timeline is about to execute, "End" past the last token *)
OpAt(t) ==
    IF t.instruction_pointer < Len(tokens)
    THEN tokens[t.instruction_pointer + 1].op ELSE "End"

Init ==
    /\ tokens \in Programs
    /\ program_input \in Inputs
    /\ program_output = <<>>
    /\ total_timelines = 0
    /\ metadata = <<>>
    /\ need_history \in BOOLEAN
    /\ timelines = <<NewTimeline(0)>>
    /\ ID_GEN = 1
    /\ phase = "snapshot"
    /\ cursor = 0
    /\ commands = <<>>
    /\ ticks = 0
    /\ panicked = FALSE
    /\ tickStart = <<>>
    /\ postStep = <<>>
    /\ forks = <<>>
    /\ prev = <<>>

Snapshot ==
    /\ ~panicked
    /\ phase = "snapshot"
    /\ ticks < MaxTicks
    /\ metadata' = CollectTimelineMetadata(timelines)
    /\ total_timelines' = Len(timelines)
    /\ phase' = "step"
    /\ cursor' = 0
    /\ commands' = <<>>
    /\ ticks' = ticks + 1
    /\ tickStart' = timelines
    /\ postStep' = <<>>
    /\ forks' = <<>>
    /\ UNCHANGED <<tokens, program_input, program_output, need_history,
                   timelines, ID_GEN, panicked, prev>>

Step ==
    /\ ~panicked
    /\ phase = "step"
    /\ cursor < Len(timelines)
    /\ LET r == Update(timelines[cursor + 1], tokens, metadata, program_input,
                       program_output, need_history)
           last == cursor + 1 = Len(timelines)
       IN  /\ timelines' = [timelines EXCEPT ![cursor + 1] = r.tl]
           /\ program_input' = r.input
           /\ program_output' = r.output
           /\ panicked' = r.panic
           /\ commands' = IF r.panic THEN commands ELSE Append(commands, r.cmd)
           /\ cursor' = IF r.panic THEN cursor ELSE IF last THEN 0 ELSE cursor + 1
           /\ phase' = IF ~r.panic /\ last THEN "apply" ELSE phase
           /\ postStep' = IF ~r.panic /\ last THEN timelines' ELSE postStep
           /\ prev' = [id \in DOMAIN prev \cup {timelines[cursor + 1].id + 1} |->
                         IF id = timelines[cursor + 1].id + 1
                         THEN [op |-> OpAt(timelines[cursor + 1]),
                               before |-> timelines[cursor + 1]]
                         ELSE prev[id]]
    /\ UNCHANGED <<tokens, total_timelines, metadata, need_history, ID_GEN,
                   ticks, tickStart, forks>>

Apply ==
    /\ ~panicked
    /\ phase = "apply"
    /\ cursor < Len(commands)
    /\ commands[cursor + 1].type = "SpawnAt" => Len(timelines) < MaxTimelines
    /\ LET r == ExecuteCommand(commands[cursor + 1], timelines, ID_GEN)
           last == cursor + 1 = Len(commands)
           c == commands[cursor + 1]
       IN  /\ timelines' = r.tls
           /\ ID_GEN' = r.id_gen
           /\ forks' = IF c.type = "SpawnAt" /\ ~r.panic
                        THEN Append(forks,
                                 [original |-> timelines[FindPosition(timelines, c.id) + 1],
                                  clone_id |-> ID_GEN,
                                  target |-> c.instruction_start])
                        ELSE forks
           /\ prev' = IF c.type = "SpawnAt" /\ ~r.panic
                       THEN [id \in DOMAIN prev \cup {ID_GEN + 1} |->
                               IF id = ID_GEN + 1
                               THEN [op |-> "Clone",
                                     before |-> timelines[FindPosition(timelines, c.id) + 1]]
                               ELSE prev[id]]
                       ELSE prev
           /\ panicked' = r.panic
           /\ cursor' = IF r.panic THEN cursor ELSE IF last THEN 0 ELSE cursor + 1
           /\ phase' = IF ~r.panic /\ last THEN "snapshot" ELSE phase
    /\ UNCHANGED <<tokens, program_input, program_output, total_timelines,
                   metadata, need_history, commands, ticks, tickStart, postStep>>

Next == Snapshot \/ Step \/ Apply

Spec == Init /\ [][Next]_vars

----------------------------------------------------------------------------
(* Vocabulary of the properties *)

(* The id of the timeline created at program start: the counter starts at 0 *)
RootId == 0

(* The command about to be applied, and the live index of its issuer *)
Applying == phase = "apply" /\ ~panicked /\ cursor < Len(commands)
Cmd == commands[cursor + 1]
IssuerIndex == FindPosition(timelines, Cmd.id)

----------------------------------------------------------------------------
(* C1: in every reachable state the population is non-empty and its index 0
   holds the timeline created at program start; applying a RemoveAt issued
   by the index-0 timeline (from Kill or from running past the last token)
   leaves the population unchanged. *)
C1_RootIsKept ==
    /\ [](Len(timelines) >= 1 /\ timelines[1].id = RootId)
    /\ [][(Applying /\ Cmd.type = "RemoveAt" /\ IssuerIndex = 0)
            => timelines' = timelines]_vars

(* The root's Kill has been applied while another timeline exists *)
C1_Witness ==
    /\ phase = "apply" /\ cursor >= 1 /\ ~panicked
    /\ OpAt(tickStart[1]) = "Kill"
    /\ commands[1] = RemoveAt(RootId)
    /\ Len(timelines) >= 2
    /\ timelines[1].id = RootId

----------------------------------------------------------------------------
(* A tick has run to its end: every command has been applied *)
TickDone == phase = "snapshot" /\ ticks >= 1 /\ ~panicked

Ids(tls) == {tls[k].id : k \in 1..Len(tls)}

(* The timeline with this id in a population that holds it *)
ById(tls, id) == tls[FindPosition(tls, id) + 1]

SameMemory(a, b) ==
    /\ a.data = b.data
    /\ a.data_backwards = b.data_backwards
    /\ a.pointers = b.pointers
    /\ a.tape = b.tape

(* What is left of a fork when the tick is over, read against the live
   population: the original at the target, the clone right after it, with
   a fresh id and the pointer the original had reached by itself *)
ForkShape(f) ==
    LET j == FindPosition(timelines, f.original.id)
    IN  /\ j # None
        /\ timelines[j + 1].instruction_pointer = f.target
        /\ j + 2 <= Len(timelines)
        /\ timelines[j + 2].id = f.clone_id
        /\ f.clone_id \notin Ids(tickStart)
        /\ timelines[j + 2].instruction_pointer
             = ById(tickStart, f.original.id).instruction_pointer + 1

(* C2 as stated: when the commands of the tick have been applied, every
   timeline that executed Spawn(target) has pointer = target and is followed
   by a clone with a fresh id, pointer p + 1, and the tape, cursor sequence
   and undo log the original had at the instant of the fork. *)
C2_CloneAtEndOfTick ==
    TickDone =>
        \A n \in 1..Len(forks) :
            /\ ForkShape(forks[n])
            /\ SameMemory(ById(timelines, forks[n].clone_id), forks[n].original)

(* C2 amended: the clone equals the original at the moment the SpawnAt
   command is applied (original at index j, pointer overridden to the
   target; clone at j + 1 with a fresh id, pointer p + 1 and the original's
   tape, cursors and undo log; every other timeline untouched); when the
   tick is over the original still has pointer = target and the clone still
   follows it with pointer p + 1 and the same undo log. *)
C2_CloneAtFork ==
    /\ [][(Applying /\ Cmd.type = "SpawnAt") =>
            LET j == IssuerIndex
                o == timelines[j + 1]
                clone == timelines'[j + 2]
            IN  /\ ~panicked'
                /\ Len(timelines') = Len(timelines) + 1
                /\ timelines'[j + 1] =
                     [o EXCEPT !.instruction_pointer = Cmd.instruction_start]
                /\ clone.id \notin Ids(timelines) \cup Ids(tickStart)
                /\ clone.instruction_pointer
                     = ById(tickStart, Cmd.id).instruction_pointer + 1
                /\ SameMemory(clone, o)
                /\ \A k \in 1..j : timelines'[k] = timelines[k]
                /\ \A k \in (j + 2)..Len(timelines) : timelines'[k + 1] = timelines[k]
          ]_vars
    /\ [](TickDone =>
            \A n \in 1..Len(forks) :
                /\ ForkShape(forks[n])
                /\ ById(timelines, forks[n].clone_id).tape = forks[n].original.tape)

(* A fork of a timeline with a written cell, a negative offset and an undo
   log has just been applied *)
C2_Witness ==
    /\ phase \in {"apply", "snapshot"} /\ ~panicked
    /\ Len(forks) >= 1
    /\ LET f == forks[Len(forks)]
       IN  /\ f.original.tape # <<>>
           /\ f.original.data_backwards # <<>>
           /\ f.original.data[1] # 0
           /\ f.clone_id \in Ids(timelines)
           /\ SameMemory(ById(timelines, f.clone_id), f.original)
           /\ f.target # f.original.instruction_pointer

----------------------------------------------------------------------------
Covered(t) == \A i \in 1..Len(t.pointers) : DataAt(t, t.pointers[i]) # None

(* C3: in every reachable state every cursor of every timeline points at an
   offset its own tape covers (so that data_at(..).unwrap() in Write and in
   the jumps cannot fail). *)
C3_CursorsCovered ==
    \A k \in 1..Len(timelines) : Covered(timelines[k])

IsMove(direction) == Applying /\ Cmd.type = "MovePointer" /\ Cmd.direction = direction

(* C4: a Move-Down command applied to a timeline at any index i # 0
   completes without failure, appends the timeline's cursor sequence to the
   timeline at i + 1 and leaves the source with zero cursors. *)
C4_MoveDownTransfers ==
    [][(IsMove("Down") /\ IssuerIndex # 0) =>
         LET i == IssuerIndex
         IN  /\ ~panicked'
             /\ i + 2 <= Len(timelines)
             /\ Len(timelines') = Len(timelines)
             /\ timelines'[i + 2].pointers
                  = timelines[i + 2].pointers \o timelines[i + 1].pointers
             /\ timelines'[i + 1].pointers = <<>>
       ]_vars

(* C5: a Move-Up or Move-Down command applied to the timeline at index 0
   empties that timeline's cursor set, changes nothing else of it and leaves
   every other timeline as it was. *)
C5_MoveAtRootClears ==
    [][((IsMove("Up") \/ IsMove("Down")) /\ IssuerIndex = 0) =>
         /\ ~panicked'
         /\ Len(timelines') = Len(timelines)
         /\ timelines'[1] = [timelines[1] EXCEPT !.pointers = <<>>]
         /\ \A k \in 2..Len(timelines) : timelines'[k] = timelines[k]
       ]_vars

(* The root's Move-Down has been applied: its cursor is gone and the
   timeline at index 1 has only its own *)
C5_Witness ==
    /\ phase = "apply" /\ cursor = 1 /\ ~panicked
    /\ commands[1] = MovePointer(RootId, "Down")
    /\ postStep[1].pointers # <<>>
    /\ timelines[1].pointers = <<>>
    /\ Len(timelines) >= 2
    /\ timelines[2].pointers = postStep[2].pointers
    /\ timelines[2].pointers # <<>>

IsPrefix(a, b) == Len(a) <= Len(b) /\ SubSeq(b, 1, Len(a)) = a

(* b is a with zero cells appended *)
GrownByZeros(a, b) ==
    /\ IsPrefix(a, b)
    /\ \A k \in (Len(a) + 1)..Len(b) : b[k] = 0

(* C6: a Move-Up command applied to a timeline at index i # 0 appends its
   cursors, in stored order and after the receiver's own, to the timeline at
   i - 1, extends the receiver's tape with zero cells so that every moved
   offset is covered, changes no existing cell, and leaves the source with
   zero cursors. *)
C6_MoveUpTransfers ==
    [][(IsMove("Up") /\ IssuerIndex # 0) =>
         LET i == IssuerIndex
             source == timelines[i + 1]
             receiver == timelines[i]
             after == timelines'[i]
         IN  /\ ~panicked'
             /\ Len(timelines') = Len(timelines)
             /\ timelines'[i + 1] = [source EXCEPT !.pointers = <<>>]
             /\ after.pointers = receiver.pointers \o source.pointers
             /\ \A n \in 1..Len(source.pointers) : DataAt(after, source.pointers[n]) # None
             /\ GrownByZeros(receiver.data, after.data)
             /\ GrownByZeros(receiver.data_backwards, after.data_backwards)
             /\ after.tape = receiver.tape
             /\ after.instruction_pointer = receiver.instruction_pointer
             /\ after.id = receiver.id
             /\ \A k \in 1..Len(timelines) : k \notin {i, i + 1} => timelines'[k] = timelines[k]
       ]_vars

(* A Move-Up from index 1 has been applied: the root holds its own cursor
   and the moved one, and its tape, with a written cell, has grown *)
C6_Witness ==
    /\ TickDone
    /\ Len(commands) >= 2 /\ Len(timelines) >= 2
    /\ commands[1].type \in {"None", "RemoveAt"}
    /\ commands[2].type = "MovePointer" /\ commands[2].direction = "Up"
    /\ timelines[2].pointers = <<>>
    /\ timelines[1].pointers = postStep[1].pointers \o postStep[2].pointers
    /\ postStep[1].pointers # <<>> /\ postStep[2].pointers # <<>>
    /\ Len(timelines[1].data) > Len(postStep[1].data)
    /\ timelines[1].data[1] # 0

----------------------------------------------------------------------------
(* The timeline about to be stepped, its token, and itself after the step *)
Stepping == phase = "step" /\ ~panicked /\ cursor < Len(timelines)
Stepped == timelines[cursor + 1]
SteppedOp == OpAt(Stepped)
SteppedToken == tokens[Stepped.instruction_pointer + 1]
SteppedAfter == timelines'[cursor + 1]

(* The cell under a cursor; a cell the tape does not hold yet reads 0 *)
CellOrZero(t, index) == IF DataAt(t, index) = None THEN 0 ELSE DataAt(t, index)

AllCellsZero(t) == \A i \in 1..Len(t.pointers) : CellOrZero(t, t.pointers[i]) = 0

(* C7: Jump-If-Zero(target) sets the instruction pointer to target exactly
   when every cursor's cell is 0 and otherwise advances by 1;
   Jump-If-Not-Zero(target) sets it to target exactly when some cursor's
   cell is nonzero and otherwise advances by 1; for every cursor set. *)
C7_JumpSemantics ==
    [][(Stepping /\ SteppedOp \in {"JumpIfZero", "JumpIfNotZero"}) =>
         LET jumps == IF SteppedOp = "JumpIfZero" THEN AllCellsZero(Stepped)
                      ELSE ~AllCellsZero(Stepped)
         IN  /\ ~panicked'
             /\ SteppedAfter.instruction_pointer
                  = IF jumps THEN SteppedToken.index
                    ELSE Stepped.instruction_pointer + 1
       ]_vars

(* The same on the cursor sets the tape covers: there the jumps decide as
   C7 says, the empty cursor set included *)
JumpSemanticsOnCoveredCursors ==
    [][(Stepping /\ SteppedOp \in {"JumpIfZero", "JumpIfNotZero"} /\ Covered(Stepped)) =>
         LET jumps == IF SteppedOp = "JumpIfZero" THEN AllCellsZero(Stepped)
                      ELSE ~AllCellsZero(Stepped)
         IN  /\ ~panicked'
             /\ SteppedAfter = [Stepped EXCEPT !.instruction_pointer =
                                   IF jumps THEN SteppedToken.index ELSE @ + 1]
       ]_vars

----------------------------------------------------------------------------
(* The snapshot entry after the one of this id shows at least one cursor *)
BelowHasCursors(id) ==
    LET n == FindPosition(metadata, id)
    IN  /\ n # None
        /\ n + 2 <= Len(metadata)
        /\ metadata[n + 2].pointers_count > 0

(* The timelines that executed Await in this tick, as they were at its start *)
Awaiting == {k \in 1..Len(tickStart) : OpAt(tickStart[k]) = "Await"}

(* C8 as stated: a timeline that executes Await advances by 1 iff the
   snapshot has no entry after its own or that entry has cursor count 0;
   otherwise its pointer, tape, cursors and undo log are unchanged across
   the tick and its command is None. *)
C8_AwaitFreezesTimeline ==
    TickDone =>
        \A k \in Awaiting :
            LET before == tickStart[k]
                now == ById(timelines, before.id)
            IN  /\ before.id \in Ids(timelines)
                /\ commands[k] = CommandNone
                /\ IF BelowHasCursors(before.id)
                   THEN now = before
                   ELSE now.instruction_pointer = before.instruction_pointer + 1

(* C8 amended: the step of an awaiting timeline changes nothing but its
   pointer, which advances by 1 iff the snapshot has no entry after its own
   or that entry has cursor count 0, and returns None; across the tick a
   stalled timeline keeps its pointer and undo log and stays in the
   population (its cursors and tape can grow by a cursor transfer applied in
   the same tick); this holds in every tick, so it stalls for as long as the
   snapshot shows a cursor below it. *)
C8_AwaitStalls ==
    /\ [][(Stepping /\ SteppedOp = "Await") =>
            /\ ~panicked'
            /\ SteppedAfter =
                 IF BelowHasCursors(Stepped.id) THEN Stepped
                 ELSE [Stepped EXCEPT !.instruction_pointer = @ + 1]
            /\ commands' = Append(commands, CommandNone)
            /\ program_input' = program_input /\ program_output' = program_output
            /\ \A k \in 1..Len(timelines) : k # cursor + 1 => timelines'[k] = timelines[k]
          ]_vars
    /\ [](TickDone =>
            \A k \in Awaiting :
                LET before == tickStart[k]
                    now == ById(timelines, before.id)
                IN  /\ before.id \in Ids(timelines)
                    /\ commands[k] = CommandNone
                    /\ now.tape = before.tape
                    /\ now.instruction_pointer =
                         IF BelowHasCursors(before.id) THEN before.instruction_pointer
                         ELSE before.instruction_pointer + 1)

(* A timeline that stalled on Await in the previous tick, and has not
   changed since, is about to execute the Await again with the snapshot
   still showing a cursor below it *)
C8_Witness ==
    /\ Stepping /\ SteppedOp = "Await"
    /\ Stepped.id + 1 \in DOMAIN prev
    /\ prev[Stepped.id + 1].op = "Await"
    /\ prev[Stepped.id + 1].before = Stepped
    /\ BelowHasCursors(Stepped.id)

----------------------------------------------------------------------------
Mutating == {"Increment", "Decrement", "Read"}

(* C9: with history enabled, Increment, Decrement or Read followed by Rewind
   as the next instruction of the same timeline restores every offset
   recorded in the slice to the value it held before the mutating
   instruction and removes exactly one slice from the undo log. *)
C9_RewindRestores ==
    [][(/\ Stepping /\ SteppedOp = "Rewind" /\ need_history
        /\ Stepped.id + 1 \in DOMAIN prev
        /\ prev[Stepped.id + 1].op \in Mutating) =>
         LET before == prev[Stepped.id + 1].before
             slice == Stepped.tape[Len(Stepped.tape)]
         IN  /\ ~panicked'
             /\ Len(Stepped.tape) = Len(before.tape) + 1
             /\ SteppedAfter.tape = before.tape
             /\ \A n \in 1..Len(slice) :
                    DataAt(SteppedAfter, slice[n][1]) = CellOrZero(before, slice[n][1])
       ]_vars

----------------------------------------------------------------------------
(* C10: no undo log of any timeline ever contains an empty time-slice. *)
C10_NoEmptySlice ==
    \A k \in 1..Len(timelines) :
        \A n \in 1..Len(timelines[k].tape) : timelines[k].tape[n] # <<>>

----------------------------------------------------------------------------
(* C11: with history disabled the undo log of every timeline, clones
   included, is empty in every reachable state, and a Rewind changes nothing
   of its timeline but the instruction pointer, which advances by 1. *)
C11_NoHistoryNoLog ==
    /\ [](~need_history =>
            \A k \in 1..Len(timelines) : timelines[k].tape = <<>>)
    /\ [][(Stepping /\ SteppedOp = "Rewind" /\ ~need_history) =>
            /\ ~panicked'
            /\ SteppedAfter = [Stepped EXCEPT !.instruction_pointer = @ + 1]
            /\ commands' = Append(commands, CommandNone)
          ]_vars

(* With history disabled and a clone in the population, a timeline has
   executed Rewind after an Increment changed its tape: the cell keeps the
   incremented value *)
C11_Witness ==
    /\ ~need_history /\ ~panicked
    /\ Len(timelines) >= 2
    /\ \E k \in 1..Len(timelines) :
          LET t == timelines[k]
          IN  /\ t.id + 1 \in DOMAIN prev
              /\ prev[t.id + 1].op = "Rewind"
              /\ prev[t.id + 1].before.data[1] # 0
              /\ t.data = prev[t.id + 1].before.data
              /\ t.tape = <<>>
              /\ t.instruction_pointer = prev[t.id + 1].before.instruction_pointer + 1

----------------------------------------------------------------------------
(* The timelines whose pointer was past the last token when the tick began *)
Exhausted == {k \in 1..Len(tickStart) : OpAt(tickStart[k]) = "End"}

(* C12: the step of a timeline whose instruction pointer is not an index of
   the token sequence returns RemoveAt(own id) and changes nothing; if the
   timeline is not at index 0 it is out of the population when the commands
   of the tick have been applied. *)
C12_ExhaustedIsRemoved ==
    /\ [][(Stepping /\ SteppedOp = "End") =>
            /\ ~panicked'
            /\ timelines' = timelines
            /\ program_input' = program_input
            /\ program_output' = program_output
            /\ commands' = Append(commands, RemoveAt(Stepped.id))
          ]_vars
    /\ [](TickDone =>
            \A k \in Exhausted :
                IF k = 1 THEN timelines[1].id = tickStart[1].id
                ELSE tickStart[k].id \notin Ids(timelines))

(* A timeline below the root ran past the last token and is gone at the end
   of the tick, while the root, exhausted too, is still there *)
C12_Witness ==
    /\ TickDone
    /\ 1 \in Exhausted
    /\ \E k \in Exhausted :
          /\ k >= 2
          /\ tickStart[k].id \notin Ids(timelines)
          /\ tickStart[k].data # <<0>>
    /\ timelines[1].id = RootId

----------------------------------------------------------------------------
IsSuffix(a, b) == Len(a) <= Len(b) /\ SubSeq(b, Len(b) - Len(a) + 1, Len(b)) = a

Min(a, b) == IF a <= b THEN a ELSE b

(* What the j-th cursor of a Read receives: the j-th remaining character
   converted with `as u8`, or the null character when the input ran out *)
ReadValue(input, j) == IF j <= Len(input) THEN input[j] % ByteMod ELSE 0

(* The last position of a cursor sequence holding this offset *)
LastAt(ptrs, offset) ==
    CHOOSE j \in 1..Len(ptrs) :
        /\ ptrs[j] = offset
        /\ \A i \in (j + 1)..Len(ptrs) : ptrs[i] # offset

(* C13: Read executed by a timeline with n cursors when m characters remain
   removes exactly min(n, m) characters from the front of the input, stores
   the j-th removed character through the j-th cursor in stored order (a
   cell addressed by several cursors ends with the value stored last),
   stores 0 through the remaining cursors and never fails; the input only
   ever loses a prefix, so what remains is a suffix of the original. *)
C13_ReadConsumes ==
    /\ [][(Stepping /\ SteppedOp = "Read") =>
            LET ptrs == Stepped.pointers
                took == Min(Len(ptrs), Len(program_input))
            IN  /\ ~panicked'
                /\ program_input' =
                       SubSeq(program_input, took + 1, Len(program_input))
                /\ SteppedAfter.pointers = ptrs
                /\ \A j \in 1..Len(ptrs) :
                       DataAt(SteppedAfter, ptrs[j]) =
                           ReadValue(program_input, LastAt(ptrs, ptrs[j]))
          ]_vars
    /\ [][IsSuffix(program_input', program_input)]_vars

(* A timeline with cursors at two offsets has read when one character
   remained: the first cursor's cell holds it, the second cursor's cell 0 *)
C13_Witness ==
    /\ ~panicked
    /\ program_input = <<>>
    /\ \E k \in 1..Len(timelines) :
          LET t == timelines[k]
          IN  /\ t.id + 1 \in DOMAIN prev
              /\ prev[t.id + 1].op = "Read"
              /\ prev[t.id + 1].before.pointers = <<1, 0>>
              /\ t.instruction_pointer = prev[t.id + 1].before.instruction_pointer + 1
              /\ DataAt(t, 1) = 65
              /\ DataAt(t, 0) = 0

----------------------------------------------------------------------------
(* C14: Write appends to the output exactly one character per cursor, in
   stored cursor order, equal to the byte in that cursor's cell, and nothing
   when the timeline has no cursor; no step and no command removes or alters
   output already produced; a lone timeline running Increment then Write
   produces the byte 1 first. *)
C14_WriteAppends ==
    /\ [][(Stepping /\ SteppedOp = "Write") =>
            /\ ~panicked'
            /\ program_output' = program_output \o
                   [i \in 1..Len(Stepped.pointers) |->
                        CellOrZero(Stepped, Stepped.pointers[i])]
          ]_vars
    /\ [][IsPrefix(program_output, program_output')]_vars
    /\ []((tokens = <<Tok("Increment", 0), Tok("Write", 0)>>
            /\ program_output # <<>>) => program_output[1] = 1)

----------------------------------------------------------------------------
Opposite(op) == IF op = "Increment" THEN "Decrement" ELSE "Increment"

(* The stepped timeline executes the second instruction of an
   Increment/Decrement or Decrement/Increment pair *)
SecondOfPair ==
    /\ Stepping
    /\ SteppedOp \in {"Increment", "Decrement"}
    /\ Stepped.id + 1 \in DOMAIN prev
    /\ prev[Stepped.id + 1].op = Opposite(SteppedOp)
    /\ prev[Stepped.id + 1].before.instruction_pointer + 1 =
           Stepped.instruction_pointer

BeforePair == prev[Stepped.id + 1].before

(* Every cell has the value it had before the pair; cells the pair made the
   tape grow by hold 0, the value of a cell not yet materialised *)
PairRestored ==
    /\ ~panicked'
    /\ GrownByZeros(BeforePair.data, SteppedAfter.data)
    /\ GrownByZeros(BeforePair.data_backwards, SteppedAfter.data_backwards)

(* C15 as stated: for every reachable cursor set and every cell value,
   Increment then Decrement, or Decrement then Increment, executed as
   consecutive instructions of the same timeline leaves every tape cell with
   the value it had before the pair, with history enabled or disabled. *)
C15_PairRestores == [][SecondOfPair => PairRestored]_vars

(* C15 amended: the pair restores every cell when the timeline's cursor
   sequence at the second instruction is the one the first instruction
   acted on. *)
C15_PairRestoresSameCursors ==
    [][(SecondOfPair /\ Stepped.pointers = BeforePair.pointers) =>
          PairRestored]_vars

(* A timeline with a duplicated cursor on a cell holding 255 has executed
   Decrement then Increment: the cell went 1, 255, 1 *)
C15_Witness ==
    /\ ~panicked
    /\ \E k \in 1..Len(timelines) :
          LET t == timelines[k]
          IN  /\ t.id + 1 \in DOMAIN prev
              /\ prev[t.id + 1].op = "Increment"
              /\ prev[t.id + 1].before.pointers = <<0, 0>>
              /\ prev[t.id + 1].before.data[1] = 255
              /\ t.pointers = <<0, 0>>
              /\ t.data[1] = 1
              /\ t.instruction_pointer = prev[t.id + 1].before.instruction_pointer + 1

----------------------------------------------------------------------------
Offsets(ptrs) == {ptrs[j] : j \in 1..Len(ptrs)}

(* The positions of a cursor sequence holding this offset *)
Occurrences(ptrs, offset) == {j \in 1..Len(ptrs) : ptrs[j] = offset}

(* The entries of a time-slice recorded for this offset, in order *)
RECURSIVE EntriesFor(_, _)
EntriesFor(slice_of_time, offset) ==
    IF slice_of_time = <<>> THEN <<>>
    ELSE IF Head(slice_of_time)[1] = offset
         THEN <<Head(slice_of_time)>> \o EntriesFor(Tail(slice_of_time), offset)
         ELSE EntriesFor(Tail(slice_of_time), offset)

LastSlice(t) == t.tape[Len(t.tape)]

Delta(op) == IF op = "Increment" THEN 1 ELSE -1

(* One Increment or Decrement moves a cell addressed k times by k; the
   slice pushed for the step holds k entries for it whose values start at v
   and move by `walk` from one entry to the next *)
UpdateByCount(walk) ==
    (Stepping /\ SteppedOp \in {"Increment", "Decrement"}) =>
        /\ ~panicked'
        /\ \A offset \in Offsets(Stepped.pointers) :
              LET k == Cardinality(Occurrences(Stepped.pointers, offset))
                  v == CellOrZero(Stepped, offset)
              IN  /\ DataAt(SteppedAfter, offset) =
                         (v + k * Delta(SteppedOp)) % ByteMod
                  /\ need_history =>
                         LET entries == EntriesFor(LastSlice(SteppedAfter), offset)
                         IN  /\ Len(entries) = k
                             /\ \A i \in 1..k :
                                   entries[i] =
                                       <<offset, (v + (i - 1) * walk) % ByteMod>>

(* C16 as stated: an offset occurring k times in the cursor sequence makes
   one Increment change the cell from v to (v + k) mod 256 and one Decrement
   to (v - k) mod 256, the slice recorded for the step holds k entries for
   the offset with the values v, v+1, ... (mod 256), and one Read consumes k
   input characters for the offset and leaves the last of them in the cell. *)
C16_DuplicatesAsStated ==
    /\ [][UpdateByCount(1)]_vars
    /\ [][(Stepping /\ SteppedOp = "Read") =>
            /\ ~panicked'
            /\ Len(program_input) - Len(program_input') = Len(Stepped.pointers)
            /\ \A offset \in Offsets(Stepped.pointers) :
                  LET last == LastAt(Stepped.pointers, offset)
                  IN  /\ last <= Len(program_input)
                      /\ DataAt(SteppedAfter, offset) =
                             program_input[last] % ByteMod
          ]_vars

(* C16 amended: the slice values run v, v+1, ... for Increment and
   v, v-1, ... for Decrement, and Read takes for the offset one input
   character per occurrence while input remains and the null character
   afterwards, leaving the value taken last in the cell. *)
C16_Duplicates ==
    /\ [][UpdateByCount(Delta(SteppedOp))]_vars
    /\ [][(Stepping /\ SteppedOp = "Read") =>
            /\ ~panicked'
            /\ Len(program_input) - Len(program_input') =
                   Min(Len(Stepped.pointers), Len(program_input))
            /\ \A offset \in Offsets(Stepped.pointers) :
                  /\ DataAt(SteppedAfter, offset) =
                         ReadValue(program_input,
                                   LastAt(Stepped.pointers, offset))
                  /\ need_history =>
                         Len(EntriesFor(LastSlice(SteppedAfter), offset)) =
                             Cardinality(Occurrences(Stepped.pointers, offset))
          ]_vars

(* With offset 0 held twice the root has decremented (1 to 255),
   incremented (255 to 1) and read two characters, the cell keeping the
   second one; the undo log shows the intermediate values of each step *)
C16_Witness ==
    /\ ~panicked
    /\ need_history
    /\ program_input = <<>>
    /\ timelines[1].pointers = <<0, 0>>
    /\ timelines[1].data[1] = 66
    /\ timelines[1].tape = << <<<<0, 0>>>>,
                              <<<<0, 1>>, <<0, 0>>>>,
                              <<<<0, 255>>, <<0, 0>>>>,
                              <<<<0, 1>>, <<0, 65>>>> >>

----------------------------------------------------------------------------
(* Every id handed out so far: a timeline enters prev when it is cloned or
   first stepped and is never taken out, removed timelines included *)
UsedIds == {n - 1 : n \in DOMAIN prev}

(* C17: when a command is applied its id identifies exactly one timeline of
   the population: ids are pairwise distinct in every reachable state, the
   id given to a clone differs from every id used before, removed timelines
   included, and no earlier command of the tick has removed the issuer, so
   the lookup by id never fails. *)
C17_IdsIdentify ==
    /\ [](\A i, j \in 1..Len(timelines) :
              timelines[i].id = timelines[j].id => i = j)
    /\ [](\A k \in 1..Len(timelines) : timelines[k].id < ID_GEN)
    /\ [][(Applying /\ Cmd.type = "SpawnAt") =>
            /\ ~panicked'
            /\ timelines'[IssuerIndex + 2].id \notin UsedIds
            /\ timelines'[IssuerIndex + 2].id \notin Ids(timelines)
            /\ ID_GEN' > timelines'[IssuerIndex + 2].id
          ]_vars
    /\ []((Applying /\ Cmd.type # "None") =>
            /\ IssuerIndex # None
            /\ Cardinality({k \in 1..Len(timelines) :
                               timelines[k].id = Cmd.id}) = 1)

(* A tick is over in which one timeline was removed and a clone made: the
   clone's id is above the id of the removed timeline *)
C17_Witness ==
    /\ TickDone
    /\ Len(forks) >= 1
    /\ forks[1].clone_id \in Ids(timelines)
    /\ \E id \in UsedIds :
          /\ id \notin Ids(timelines)
          /\ id \in Ids(tickStart)
          /\ id < forks[1].clone_id

----------------------------------------------------------------------------
(* The index the issuer of the command being applied had when the step
   phase ended *)
SteppedIndex == FindPosition(postStep, Cmd.id)

(* The timeline with this id receives the cursors of the issuer *)
Receives(id) ==
    /\ ~panicked'
    /\ id \in Ids(timelines')
    /\ ById(timelines', id).pointers =
           ById(timelines, id).pointers \o timelines[IssuerIndex + 1].pointers

Spawned(id) == \E n \in 1..Len(forks) : forks[n].original.id = id

(* C18 as stated: the neighbour that receives the cursors of a MovePointer
   command is the timeline adjacent to the issuer in the population as it
   stood after the step phase, before any command of the tick was applied;
   a Spawn or Remove applied earlier in the tick above the issuer does not
   change the receiver. *)
C18_NeighbourAsStepped ==
    /\ [][(IsMove("Up") /\ IssuerIndex # 0) =>
            Receives(postStep[SteppedIndex].id)]_vars
    /\ [][(IsMove("Down") /\ IssuerIndex # 0
             /\ SteppedIndex + 2 <= Len(postStep)) =>
            Receives(postStep[SteppedIndex + 2].id)]_vars

(* C18 amended: the receiver is the timeline adjacent to the issuer in the
   live population at the moment the command is applied.  For Move-Down it
   is the timeline that was below the issuer after the step phase; for
   Move-Up it is that of the step phase unless the timeline directly above
   spawned or was removed earlier in the tick, and after a spawn it is the
   fresh clone. *)
C18_NeighbourLive ==
    /\ [][(IsMove("Up") /\ IssuerIndex # 0) =>
            LET above == postStep[SteppedIndex].id
                receiver == timelines[IssuerIndex].id
            IN  /\ Receives(receiver)
                /\ \A k \in 1..Len(timelines) :
                      k \notin {IssuerIndex, IssuerIndex + 1} =>
                          timelines'[k] = timelines[k]
                /\ receiver # above <=>
                      (Spawned(above) \/ above \notin Ids(timelines))
                /\ \A n \in 1..Len(forks) :
                      forks[n].original.id = above =>
                          receiver = forks[n].clone_id
          ]_vars
    /\ [][(IsMove("Down") /\ IssuerIndex # 0
             /\ IssuerIndex + 2 <= Len(timelines)) =>
            /\ SteppedIndex + 2 <= Len(postStep)
            /\ timelines[IssuerIndex + 2].id = postStep[SteppedIndex + 2].id
            /\ Receives(timelines[IssuerIndex + 2].id)
          ]_vars

(* A tick is over in which the timeline directly above a Move-Up issuer
   spawned: the fresh clone holds the issuer's cursor after its own, and the
   spawning timeline has the cursors it had *)
C18_Witness ==
    /\ TickDone
    /\ \E n \in 1..Len(forks) : \E k \in 2..Len(postStep) :
          LET f == forks[n]
          IN  /\ postStep[k - 1].id = f.original.id
              /\ commands[k].type = "MovePointer"
              /\ commands[k].direction = "Up"
              /\ postStep[k].pointers # <<>>
              /\ ById(timelines, f.clone_id).pointers =
                     f.original.pointers \o postStep[k].pointers
              /\ ById(timelines, f.original.id).pointers = f.original.pointers
              /\ ById(timelines, postStep[k].id).pointers = <<>>

----------------------------------------------------------------------------
(* C19: during the step phase a step of one timeline changes only that
   timeline's own tape, cursor offsets, undo log and instruction pointer
   plus the shared input and output: no other timeline changes, the
   membership and order of the population and every timeline's number of
   cursors stay as they are, so the cursor counts of the tick snapshot are
   the live counts whenever an Await of the tick is evaluated. *)
C19_StepFrame ==
    /\ [][Stepping =>
            /\ Len(timelines') = Len(timelines)
            /\ ID_GEN' = ID_GEN
            /\ metadata' = metadata
            /\ \A k \in 1..Len(timelines) :
                  /\ timelines'[k].id = timelines[k].id
                  /\ Len(timelines'[k].pointers) = Len(timelines[k].pointers)
                  /\ k # cursor + 1 => timelines'[k] = timelines[k]
          ]_vars
    /\ [](phase = "step" =>
            /\ Len(metadata) = Len(timelines)
            /\ \A k \in 1..Len(timelines) :
                  /\ metadata[k].id = timelines[k].id
                  /\ metadata[k].pointers_count = Len(timelines[k].pointers))

(* The timeline below the root is about to evaluate Await in a tick in
   which the root has already changed its tape: the snapshot still shows
   the root's live cursor count *)
C19_Witness ==
    /\ Stepping
    /\ SteppedOp = "Await"
    /\ cursor = 1
    /\ timelines[1].data # tickStart[1].data
    /\ timelines[1].pointers # <<>>
    /\ metadata[1].pointers_count = Len(timelines[1].pointers)

----------------------------------------------------------------------------
(* The tick under way, or the tick about to start, began with the root
   alone and past the last token *)
Halted ==
    /\ ~panicked
    /\ IF phase = "snapshot"
       THEN Len(timelines) = 1 /\ OpAt(timelines[1]) = "End"
       ELSE Len(tickStart) = 1 /\ OpAt(tickStart[1]) = "End"

(* C20: once the population is the root alone with its instruction pointer
   past the last token, every further tick leaves the population, the
   root's tape, cursors, undo log and instruction pointer, the input and
   the output unchanged; the root's suppressed RemoveAt is the only command
   of such a tick and the population never becomes empty. *)
C20_FixedPoint ==
    /\ [][Halted =>
            /\ Halted'
            /\ timelines' = timelines
            /\ program_input' = program_input
            /\ program_output' = program_output
            /\ ID_GEN' = ID_GEN
          ]_vars
    /\ []((Halted /\ phase = "apply") => commands = <<RemoveAt(RootId)>>)
    /\ [](Halted => (Len(timelines) = 1 /\ timelines[1].id = RootId))
    /\ [](Len(timelines) >= 1)

(* Two ticks in a row have ended with the root alone past the last token,
   after a run that removed a clone and produced output *)
C20_Witness ==
    /\ TickDone
    /\ Halted
    /\ tickStart = timelines
    /\ prev[RootId + 1].op = "End"
    /\ ID_GEN > 1
    /\ program_output # <<>>

====
